---- MODULE Spec2Model ----
(***************************************************************************)
(* Citation extraction, normalisation and cross-document resolution of the *)
(* legal citation graph backend (backend/citation_parser.py and            *)
(* backend/document_processor.py).                                         *)
(*                                                                         *)
(* Conventions                                                             *)
(*  - A text is a sequence of tokens separated by single blanks.  A token  *)
(*    is a run of digits (num = TRUE, n its value) or a word (w its        *)
(*    characters without a trailing period, dot = whether a period ends    *)
(*    it).                                                                 *)
(*  - Confidences are counted in tenths: 8 is 0.8, 10 is 1.0.              *)
(*  - Python None is NoneInt for integer columns, NoneStr for strings and  *)
(*    NoDoc for a document reference.                                      *)
(*  - resolution_notes, a JSON array kept as text, is the sequence of its  *)
(*    elements; an element is [msg, n] with n the candidate count          *)
(*    interpolated into the message (0 when the message has none).         *)
(***************************************************************************)
EXTENDS Integers, Sequences, FiniteSets, TLC

\* ------------------------------------------------------------------ bounds
MaxDocs == 3
MaxSpans == 2
MaxTotalSpans == 3
MaxDirect == 1
MaxApiFiles == 2
MaxChunks == 4
MaxParserSpans == 3
MaxRepeat == 2

\* ------------------------------------------------------- program constants
NoneInt == -1
NoneStr == ""
NoDoc == 0
ExactBoost == 3
AmbiguousPenalty == 2
ConfidenceFloor == 1
ConfidenceCap == 10
FuzzyConfidence == 3
VolumeWindow == 10
SpanConfidence == 8
FullTextConfidence == 6

\* ------------------------------------------------------------------ tokens
Num(n) == [num |-> TRUE, n |-> n, w |-> "", dot |-> FALSE]
Word(w, dot) == [num |-> FALSE, n |-> 0, w |-> w, dot |-> dot]

\* words made of ASCII letters only ([A-Za-z]+)
AlphaWords == {"F", "Cal", "NE", "See", "above", "and"}
\* words made of exactly two upper-case letters ([A-Z]{2})
TwoUpperWords == {"NE"}

IsNum(text, i) == i <= Len(text) /\ text[i].num
IsWord(text, i) == i <= Len(text) /\ ~text[i].num

\* Python truthiness of an Optional[int] and of an Optional[str]
TruthyInt(x) == x # NoneInt /\ x # 0
TruthyStr(s) == s # NoneStr

NoComponents == [volume |-> NoneInt, reporter |-> NoneStr, page |-> NoneInt]

\* re.match(r'(\d+)\s+U\.S\.\s+(\d+)', text)
us_match(text) ==
    /\ IsNum(text, 1)
    /\ IsWord(text, 2) /\ text[2].w = "U.S" /\ text[2].dot
    /\ IsNum(text, 3)

\* the Federal Reporter pattern without its series suffix
fed_match_NoSeries(text) ==
    /\ IsNum(text, 1)
    /\ IsWord(text, 2) /\ text[2].w = "F" /\ text[2].dot
    /\ IsNum(text, 3)

\* re.match(r'(\d+)\s+F\.(?:2d|3d|4d)?\s+(\d+)', text)
fed_match(text) ==
    /\ IsNum(text, 1)
    /\ IsWord(text, 2)
    /\ \/ text[2].w = "F" /\ text[2].dot
       \/ text[2].w \in {"F.2d", "F.3d", "F.4d"} /\ ~text[2].dot
    /\ IsNum(text, 3)

\* re.match(r'(\d+)\s+([A-Z]{2})\.?\s+(?:2d|3d)?\s+(\d+)', text): with single
\* blanks between tokens the two \s+ need the series token between them
state_match(text) ==
    /\ IsNum(text, 1)
    /\ IsWord(text, 2) /\ text[2].w \in TwoUpperWords
    /\ IsWord(text, 3) /\ text[3].w \in {"2d", "3d"} /\ ~text[3].dot
    /\ IsNum(text, 4)

\* re.match(r'(\d+)\s+([A-Za-z]+)\.?\s+(\d+)', text)
generic_match(text) ==
    /\ IsNum(text, 1)
    /\ IsWord(text, 2) /\ text[2].w \in AlphaWords
    /\ IsNum(text, 3)

extract_citation_components(text) ==
    IF us_match(text)
    THEN [volume |-> text[1].n, reporter |-> "U.S.", page |-> text[3].n]
    ELSE IF fed_match(text)
    THEN [volume |-> text[1].n, reporter |-> "F.", page |-> text[3].n]
    ELSE IF state_match(text)
    THEN [volume |-> text[1].n, reporter |-> text[2].w, page |-> text[4].n]
    ELSE IF generic_match(text)
    THEN [volume |-> text[1].n, reporter |-> text[2].w, page |-> text[3].n]
    ELSE NoComponents

\* " ".join(parts) if parts else "unknown": the key is the sequence of its
\* blank-separated parts
KeyNum(n) == [num |-> TRUE, n |-> n, w |-> ""]
KeyStr(s) == [num |-> FALSE, n |-> 0, w |-> s]

create_normalized_key(components) ==
    LET parts == (IF TruthyInt(components.volume)
                  THEN <<KeyNum(components.volume)>> ELSE <<>>)
              \o (IF TruthyStr(components.reporter)
                  THEN <<KeyStr(components.reporter)>> ELSE <<>>)
              \o (IF TruthyInt(components.page)
                  THEN <<KeyNum(components.page)>> ELSE <<>>)
    IN IF parts # <<>> THEN parts ELSE <<KeyStr("unknown")>>

\* a span is [raw_text, loc, confidence]; loc stands for the span's
\* page_number, span_start and span_end.  The components never hold a year,
\* so citation_data.get("year") is None
parse_single_citation(span) ==
    LET citation_data == extract_citation_components(span.raw_text)
    IN [raw_text |-> span.raw_text,
        normalized_key |-> create_normalized_key(citation_data),
        reporter |-> citation_data.reporter,
        volume |-> citation_data.volume,
        page |-> citation_data.page,
        year |-> NoneInt,
        loc |-> span.loc,
        confidence |-> span.confidence]

\* a span whose raw_text is not a string (None): re.match raises TypeError
NotAString == <<Num(NoneInt)>>
Raises(span) == span.raw_text = NotAString

\* the loop left at the first span that raises
parse_citations_from_spans_Aborting(citation_spans) ==
    LET bad == { i \in 1..Len(citation_spans) : Raises(citation_spans[i]) }
        last == IF bad = {} THEN Len(citation_spans)
                ELSE (CHOOSE i \in bad : \A j \in bad : i <= j) - 1
    IN [i \in 1..last |-> parse_single_citation(citation_spans[i])]

\* try: parsed = _parse_single_citation(span) ... except Exception: continue
parse_citations_from_spans(citation_spans) ==
    LET parsed == SelectSeq(citation_spans, LAMBDA span : ~Raises(span))
    IN [i \in 1..Len(parsed) |-> parse_single_citation(parsed[i])]

\* the text of a token, as a part of a blank-separated string
TokenText(tok) ==
    IF tok.num THEN KeyNum(tok.n)
    ELSE KeyStr(IF tok.dot THEN tok.w \o "." ELSE tok.w)

\* the three patterns of parse_citations, tried at token i of the text, and
\* the number of tokens a match of each takes
pattern_matches(k, text, i) ==
    IF k = 1
    THEN /\ IsNum(text, i)
         /\ IsWord(text, i + 1) /\ text[i + 1].w = "U.S" /\ text[i + 1].dot
         /\ IsNum(text, i + 2)
    ELSE IF k = 2
    THEN /\ IsNum(text, i)
         /\ IsWord(text, i + 1)
         /\ \/ text[i + 1].w = "F" /\ text[i + 1].dot
            \/ text[i + 1].w \in {"F.2d", "F.3d", "F.4d"} /\ ~text[i + 1].dot
         /\ IsNum(text, i + 2)
    ELSE /\ IsNum(text, i)
         /\ IsWord(text, i + 1) /\ text[i + 1].w \in TwoUpperWords
         /\ IsWord(text, i + 2) /\ text[i + 2].w \in {"2d", "3d"} /\ ~text[i + 2].dot
         /\ IsNum(text, i + 3)

pattern_tokens(k) == IF k = 3 THEN 4 ELSE 3

\* re.finditer(pattern, text): the matches from left to right, each search
\* starting where the match before it ended
RECURSIVE finditer(_, _, _)
finditer(k, text, i) ==
    IF i > Len(text) THEN <<>>
    ELSE IF pattern_matches(k, text, i)
    THEN <<SubSeq(text, i, i + pattern_tokens(k) - 1)>>
            \o finditer(k, text, i + pattern_tokens(k))
    ELSE finditer(k, text, i + 1)

\* ParsedCitation(raw_text=match.group(0), normalized_key=match.group(0),
\* confidence=0.6): the other fields keep their default None
parse_citations(text) ==
    LET matches == finditer(1, text, 1) \o finditer(2, text, 1) \o finditer(3, text, 1)
    IN [j \in 1..Len(matches) |->
          [raw_text |-> matches[j],
           normalized_key |-> [t \in 1..Len(matches[j]) |-> TokenText(matches[j][t])],
           reporter |-> NoneStr,
           volume |-> NoneInt,
           page |-> NoneInt,
           year |-> NoneInt,
           loc |-> NoneInt,
           confidence |-> FullTextConfidence]]

\* ------------------------------------------------------------------ inputs
\* the spans a document may hold: "10 F.2d 7", "20 F. 7", "31 F.3d 7",
\* "0 F. 7", "10 U.S. 7 (1973)" and a text no recognizer matches.  The PDF
\* layer reports SpanConfidence; other callers of the parser may report any
\* confidence of [0, 1]
SpanChoices ==
    { [raw_text |-> <<Num(10), Word("F.2d", FALSE), Num(7)>>,
       confidence |-> SpanConfidence],
      [raw_text |-> <<Num(20), Word("F", TRUE), Num(7)>>,
       confidence |-> 0],
      [raw_text |-> <<Num(31), Word("F.3d", FALSE), Num(7)>>,
       confidence |-> ConfidenceCap],
      [raw_text |-> <<Num(0), Word("F", TRUE), Num(7)>>,
       confidence |-> SpanConfidence],
      [raw_text |-> <<Num(10), Word("U.S", TRUE), Num(7), Word("(1973)", FALSE)>>,
       confidence |-> SpanConfidence],
      [raw_text |-> <<Word("See", FALSE), Word("above", FALSE)>>,
       confidence |-> SpanConfidence] }

SpanLists ==
    UNION { { [i \in 1..n |-> [raw_text |-> ch[i].raw_text, loc |-> i,
                               confidence |-> ch[i].confidence]] :
                ch \in [1..n -> SpanChoices] } :
            n \in 0..MaxSpans }

\* the folders: file i holds content folder[i]; a file is a copy of an
\* earlier one or new content
Folders ==
    UNION { { f \in [1..n -> 1..MaxDocs] : \A i \in 1..n : f[i] <= i } :
            n \in 0..MaxDocs }

\* the component sets the callers of _create_normalized_key may pass: each
\* component absent or present, 0 included
ComponentSets ==
    [volume : {NoneInt, 0, 410}, reporter : {NoneStr, "U.S.", "F."},
     page : {NoneInt, 0, 113}]

\* the texts: up to MaxChunks of "See", "and", "(1973)", "410 U.S. 113",
\* "123 Cal. 456", "123 F. 456", "123 F.2d 456", "123 F.3d 456" and
\* "12 NE 2d 7", separated by blanks
Chunks ==
    { <<Word("See", FALSE)>>, <<Word("and", FALSE)>>, <<Word("(1973)", FALSE)>>,
      <<Num(410), Word("U.S", TRUE), Num(113)>>,
      <<Num(123), Word("Cal", TRUE), Num(456)>>,
      <<Num(123), Word("F", TRUE), Num(456)>>,
      <<Num(123), Word("F.2d", FALSE), Num(456)>>,
      <<Num(123), Word("F.3d", FALSE), Num(456)>>,
      <<Num(12), Word("NE", FALSE), Word("2d", FALSE), Num(7)>> }

RECURSIVE TextsOf(_)
TextsOf(n) ==
    IF n = 0 THEN {<<>>}
    ELSE TextsOf(n - 1) \cup { t \o c : t \in TextsOf(n - 1), c \in Chunks }

Texts == TextsOf(MaxChunks)

\* the span lists a caller may pass to parse_citations_from_spans: spans a
\* recognizer matches, spans none matches, and spans that are not well formed
ParserSpanChoices ==
    { <<Num(410), Word("U.S", TRUE), Num(113), Word("(1973)", FALSE)>>,
      <<Num(123), Word("Cal", TRUE), Num(456)>>,
      <<Word("See", FALSE), Word("above", FALSE)>>,
      NotAString }

ParserSpanLists ==
    UNION { { [i \in 1..n |-> [raw_text |-> ch[i], loc |-> i,
                               confidence |-> SpanConfidence]] :
                ch \in [1..n -> ParserSpanChoices] } :
            n \in 0..MaxParserSpans }

\* ------------------------------------------------------------------- state
VARIABLES
    folder,      \* the PDF files of PDF_STORAGE_PATH: file -> content
    pdfs,        \* content -> the citation spans process_pdf extracts from it
    documents,   \* table documents, in insertion order
    citations,   \* table citations: the committed rows
    batch,       \* the running process_all_documents call
    proc,        \* the running process_document call
    summary,     \* what the last process_all_documents call returned
    lastCall,    \* what the last direct process_document call returned or raised
    raised,      \* documents whose processing raised in the running batch
    directs,     \* number of direct process_document calls made
    parser,      \* a CitationParser call: its argument and what it returned
    workers      \* the process_document calls of concurrent callers in flight

vars == <<folder, pdfs, documents, citations, batch, proc, summary, lastCall,
          raised, directs, parser, workers>>

Unread == <<[raw_text |-> <<>>, loc |-> 0, confidence |-> 0]>>
IdleProc == [pc |-> "idle", doc |-> NoDoc, caller |-> "", pass |-> 0, found |-> 0]
IdleBatch == [pc |-> "idle", todo |-> <<>>, discovered |-> {}, results |-> <<>>]
NoSummary == [total_documents |-> 0, processed |-> 0, failed |-> 0,
              results |-> <<>>, returned |-> FALSE]
NoCall == [document_id |-> NoDoc, processing_status |-> "", error |-> "",
           citations_found |-> 0, citations_stored |-> 0, citations_linked |-> 0]

\* no call of the parser: kind names the method called next, then its
\* argument, then what each call returned
NoParserCall ==
    [kind |-> "none", components |-> NoComponents, text |-> <<>>, spans |-> <<>>,
     keys |-> <<>>, single |-> <<>>, found |-> <<>>, from_spans |-> <<>>]

ParserCalls ==
    { [NoParserCall EXCEPT !.kind = "components", !.components = c] :
        c \in ComponentSets }
    \cup { [NoParserCall EXCEPT !.kind = "text", !.text = t] : t \in Texts }
    \cup { [NoParserCall EXCEPT !.kind = "spans", !.spans = sp] :
             sp \in ParserSpanLists }

Init ==
    /\ folder \in Folders
    /\ pdfs = [b \in 1..MaxDocs |-> Unread]
    /\ documents = <<>>
    /\ citations = {}
    /\ batch = IdleBatch
    /\ proc = IdleProc
    /\ summary = NoSummary
    /\ lastCall = NoCall
    /\ raised = {}
    /\ directs = 0
    /\ parser = NoParserCall
    /\ workers = {}

\* ---------------------------------------------------------------- database
Range(s) == { s[i] : i \in 1..Len(s) }
DocIds(docs) == { docs[i].id : i \in 1..Len(docs) }

\* hashlib.sha256(content).hexdigest(): distinct contents, distinct digests
Fingerprint(content) == content

\* the ingestion without the lookup by fingerprint: every file is added
Ingest_NoCheck(docs, files, i) ==
    docs \o [k \in 1..Len(files) |-> [id |-> Len(docs) + k,
                                       fingerprint |-> Fingerprint(files[k]),
                                       source_path |-> k]]

RECURSIVE Ingest(_, _, _)
Ingest(docs, files, i) ==
    IF i > Len(files) THEN docs
    ELSE LET fingerprint == Fingerprint(files[i])
             existing_doc == \E k \in 1..Len(docs) : docs[k].fingerprint = fingerprint
         IN IF existing_doc THEN Ingest(docs, files, i + 1)
            ELSE Ingest(Append(docs, [id |-> Len(docs) + 1,
                                      fingerprint |-> fingerprint,
                                      source_path |-> i]),
                        files, i + 1)

\* the selection of the documents without a linked row
Unprocessed_Unlinked(docs, cits) ==
    LET ids == [i \in 1..Len(docs) |-> docs[i].id]
    IN SelectSeq(ids, LAMBDA d :
          ~\E r \in cits : r.from_doc_id = d /\ r.to_doc_id # NoDoc)

\* the selection without its filter: every document
Unprocessed_All(docs, cits) == [i \in 1..Len(docs) |-> docs[i].id]

\* db.query(DocumentModel).filter(~DocumentModel.citations_from.any()).all():
\* the documents without a row of their own, in table order.  The documents'
\* contents range over every choice, so another row order only renames them
Unprocessed(docs, cits) ==
    LET ids == [i \in 1..Len(docs) |-> docs[i].id]
    IN SelectSeq(ids, LAMBDA d : ~\E r \in cits : r.from_doc_id = d)

DocOf(docs, id) == CHOOSE d \in { docs[i] : i \in 1..Len(docs) } : d.id = id

\* the passes of a document that stored rows so far
PassesOf(cits, d) == { r.created : r \in { x \in cits : x.from_doc_id = d } }

\* the row _store_citations builds from one ParsedCitation.  created is the
\* pass of the citing document that made the row (its created_at), via the
\* statement that built it; rows differ in one of from_doc_id, loc, created,
\* via and to_doc_id, as they differ in their generated id
StoredRow(from_doc_id, parsed, pass) ==
    [from_doc_id |-> from_doc_id,
     to_doc_id |-> NoDoc,
     raw_text |-> parsed.raw_text,
     normalized_key |-> parsed.normalized_key,
     reporter |-> parsed.reporter,
     volume |-> parsed.volume,
     page |-> parsed.page,
     loc |-> parsed.loc,
     confidence |-> parsed.confidence,
     resolution_notes |-> <<>>,
     created |-> pass,
     via |-> "stored"]

\* the store that first deletes the rows the document already has
store_citations_Replacing(cits, from_doc_id, parsed_citations, pass) ==
    { r \in cits : r.from_doc_id # from_doc_id }
    \cup { StoredRow(from_doc_id, parsed_citations[i], pass) :
             i \in 1..Len(parsed_citations) }

store_citations(cits, from_doc_id, parsed_citations, pass) ==
    cits \cup { StoredRow(from_doc_id, parsed_citations[i], pass) :
                  i \in 1..Len(parsed_citations) }

\* the stored rows of every pass of the document
StoredBy_AllPasses(cits, d, pass) ==
    { r \in cits : r.from_doc_id = d /\ r.via = "stored" }

\* the rows a pass stored, whatever was done to them since
StoredBy(cits, d, pass) ==
    { r \in cits : r.from_doc_id = d /\ r.created = pass /\ r.via = "stored" }

\* ------------------------------------------------------------- resolution
Abs(x) == IF x < 0 THEN -x ELSE x
Min(a, b) == IF a <= b THEN a ELSE b
Max(a, b) == IF a >= b THEN a ELSE b

RECURSIVE SumSeq(_)
SumSeq(s) == IF s = <<>> THEN 0 ELSE Head(s) + SumSeq(Tail(s))

RECURSIVE SumOver(_, _)
SumOver(S, f) ==
    IF S = {} THEN 0
    ELSE LET x == CHOOSE y \in S : TRUE IN f[x] + SumOver(S \ {x}, f)

\* the orders in which a query without ORDER BY may return the documents
Orders(docs) ==
    { o \in [1..Len(docs) -> DocIds(docs)] :
        \A i, j \in 1..Len(docs) : i # j => o[i] # o[j] }

\* the skip of incomplete citations left out
Complete_NoSkip(citation) == TRUE

\* all([citation.reporter, citation.volume, citation.page])
Complete(citation) ==
    /\ TruthyStr(citation.reporter)
    /\ TruthyInt(citation.volume)
    /\ TruthyInt(citation.page)

\* the query without its "Don't link to self" filter
ExactCandidates_WithSelf(cits, citation, order) ==
    SelectSeq(order, LAMBDA d :
        \E r \in cits :
            /\ r.from_doc_id = d
            /\ r.reporter = citation.reporter
            /\ r.volume = citation.volume
            /\ r.page = citation.page)

\* the query returning a document once more when two or more of its rows match
ExactCandidates_PerRow(cits, citation, order) ==
    LET matching(d) == { r \in cits : /\ r.from_doc_id = d
                                       /\ r.reporter = citation.reporter
                                       /\ r.volume = citation.volume
                                       /\ r.page = citation.page
                                       /\ r.from_doc_id # citation.from_doc_id }
    IN SelectSeq(order, LAMBDA d : matching(d) # {})
       \o SelectSeq(order, LAMBDA d : Cardinality(matching(d)) >= 2)

\* the query under a lock that hides the rows of calls still in flight
ExactCandidates_Isolated(cits, citation, order) ==
    SelectSeq(order, LAMBDA d :
        /\ \A w \in workers : w.doc # d
        /\ \E r \in cits :
              /\ r.from_doc_id = d
              /\ r.reporter = citation.reporter
              /\ r.volume = citation.volume
              /\ r.page = citation.page
              /\ r.from_doc_id # citation.from_doc_id)

\* db.query(DocumentModel).join(CitationModel).filter(reporter ==, volume ==,
\* page ==, from_doc_id !=).all(): the documents, each once, that own a row
\* with the citation's triple, the citing document excluded
ExactCandidates(cits, citation, order) ==
    SelectSeq(order, LAMBDA d :
        \E r \in cits :
            /\ r.from_doc_id = d
            /\ r.reporter = citation.reporter
            /\ r.volume = citation.volume
            /\ r.page = citation.page
            /\ r.from_doc_id # citation.from_doc_id)

\* the inner test of _find_fuzzy_citations on one row of another document
FuzzyRowMatches(doc_citation, citation) ==
    /\ doc_citation.reporter = citation.reporter
    /\ TruthyInt(doc_citation.volume) /\ TruthyInt(citation.volume)
    /\ Abs(doc_citation.volume - citation.volume) <= VolumeWindow

find_fuzzy_citations(cits, citation, order) ==
    IF TruthyStr(citation.reporter)
    THEN SelectSeq(order, LAMBDA d :
            /\ \E r \in cits :
                  /\ r.from_doc_id = d
                  /\ r.reporter = citation.reporter
                  /\ r.from_doc_id # citation.from_doc_id
            /\ \E r \in cits :
                  /\ r.from_doc_id = d
                  /\ FuzzyRowMatches(r, citation))
    ELSE <<>>

ExactNote == <<[msg |-> "Exact reporter/volume/page match", n |-> 0]>>
\* the note without the candidate count
NetworkNote_NoCount(n) == <<[msg |-> "Multiple candidates, network connection", n |-> 0]>>
NetworkNote(n) == <<[msg |-> "Multiple candidates (n), network connection", n |-> n]>>
PrimaryNote(n) == <<[msg |-> "Multiple candidates (n), primary connection", n |-> n]>>
\* a fuzzy row written without its note
FuzzyNote_Empty == <<>>
FuzzyNote == <<[msg |-> "Fuzzy citation match - potential connection", n |-> 0]>>

\* CitationModel(from_doc_id=citation.from_doc_id, to_doc_id=candidate.id, ...)
CopyRow(citation, to_doc_id, confidence, notes, via) ==
    [citation EXCEPT !.to_doc_id = to_doc_id,
                     !.confidence = confidence,
                     !.resolution_notes = notes,
                     !.via = via]

\* the penalty added instead of subtracted
ReducedConfidence_Raised(confidence) ==
    Max(confidence + AmbiguousPenalty, ConfidenceFloor)

\* the boost without min(..., 1.0), the penalty without max(..., 0.1)
BoostedConfidence_Uncapped(confidence) == confidence + ExactBoost
ReducedConfidence_NoFloor(confidence) == confidence - AmbiguousPenalty

BoostedConfidence(confidence) == Min(confidence + ExactBoost, ConfidenceCap)
ReducedConfidence(confidence) == Max(confidence - AmbiguousPenalty, ConfidenceFloor)

\* the candidates an additional row is built for ("Avoid duplicates"):
\* citation.to_doc_id is still None when the loop runs
FanOutTargets(citation, candidates) ==
    SelectSeq(candidates, LAMBDA d : d # citation.to_doc_id)

\* the loop body linking the citation itself to the first fuzzy candidate
LinkOne_FuzzyLinksOriginal(cits, citation, order) ==
    IF ~Complete(citation)
    THEN [row |-> citation, added |-> <<>>, queried |-> FALSE, linked |-> 0]
    ELSE
      LET candidates == ExactCandidates(cits, citation, order)
          n == Len(candidates)
      IN IF n = 1
         THEN [row |-> CopyRow(citation, candidates[1],
                               BoostedConfidence(citation.confidence),
                               ExactNote, "stored"),
               added |-> <<>>, queried |-> TRUE, linked |-> 1]
         ELSE IF n > 1
         THEN LET targets == FanOutTargets(citation, candidates)
              IN [row |-> CopyRow(citation, candidates[1],
                                  ReducedConfidence(citation.confidence),
                                  PrimaryNote(n), "stored"),
                  added |-> [k \in 1..Len(targets) |->
                               CopyRow(citation, targets[k],
                                       ReducedConfidence(citation.confidence),
                                       NetworkNote(n), "fanout")],
                  queried |-> TRUE, linked |-> Len(targets) + 1]
         ELSE LET fuzzy_candidates == find_fuzzy_citations(cits, citation, order)
              IN [row |-> IF fuzzy_candidates = <<>> THEN citation
                          ELSE CopyRow(citation, fuzzy_candidates[1],
                                       FuzzyConfidence, FuzzyNote, "stored"),
                  added |-> [k \in 1..Len(fuzzy_candidates) |->
                               CopyRow(citation, fuzzy_candidates[k],
                                       FuzzyConfidence, FuzzyNote, "fuzzy")],
                  queried |-> TRUE, linked |-> Len(fuzzy_candidates)]

\* one iteration of the loop of _link_citations: the citation as it is
\* left, the rows added, whether the exact-match query ran, and the links
\* counted
LinkOne(cits, citation, order) ==
    IF ~Complete(citation)
    THEN [row |-> citation, added |-> <<>>, queried |-> FALSE, linked |-> 0]
    ELSE
      LET candidates == ExactCandidates(cits, citation, order)
          n == Len(candidates)
      IN IF n = 1
         THEN [row |-> CopyRow(citation, candidates[1],
                               BoostedConfidence(citation.confidence),
                               ExactNote, "stored"),
               added |-> <<>>, queried |-> TRUE, linked |-> 1]
         ELSE IF n > 1
         THEN LET targets == FanOutTargets(citation, candidates)
              IN [row |-> CopyRow(citation, candidates[1],
                                  ReducedConfidence(citation.confidence),
                                  PrimaryNote(n), "stored"),
                  added |-> [k \in 1..Len(targets) |->
                               CopyRow(citation, targets[k],
                                       ReducedConfidence(citation.confidence),
                                       NetworkNote(n), "fanout")],
                  queried |-> TRUE, linked |-> Len(targets) + 1]
         ELSE LET fuzzy_candidates == find_fuzzy_citations(cits, citation, order)
              IN [row |-> citation,
                  added |-> [k \in 1..Len(fuzzy_candidates) |->
                               CopyRow(citation, fuzzy_candidates[k],
                                       FuzzyConfidence, FuzzyNote, "fuzzy")],
                  queried |-> TRUE, linked |-> Len(fuzzy_candidates)]

\* the key of a citation of a pass: citing document, pass, place in the text
CitationKey(r) == [doc |-> r.from_doc_id, pass |-> r.created, loc |-> r.loc]

\* _link_citations over the rows `stored` of the running pass: the table
\* after db.commit(), the citations queried for, and linked_count
link_citations(cits, stored, order) ==
    LET outcome == [c \in stored |-> LinkOne(cits, c, order)]
    IN [table |-> (cits \ stored)
                   \cup { outcome[c].row : c \in stored }
                   \cup UNION { Range(outcome[c].added) : c \in stored },
        queried |-> { CitationKey(c) : c \in { x \in stored : outcome[x].queried } },
        linked_count |-> SumOver(stored, [c \in stored |-> outcome[c].linked])]

\* ----------------------------------------------------------------- actions
\* the result with citations_linked held to citations_stored
Completed_LinkedCapped(document_id, found, stored, linked) ==
    [document_id |-> document_id, processing_status |-> "completed", error |-> "",
     citations_found |-> found, citations_stored |-> stored,
     citations_linked |-> IF linked > stored THEN stored ELSE linked]

Completed(document_id, found, stored, linked) ==
    [document_id |-> document_id, processing_status |-> "completed", error |-> "",
     citations_found |-> found, citations_stored |-> stored,
     citations_linked |-> linked]

\* the exception swallowed: process_document returns an empty result
Exception_Swallowed(document_id, error) ==
    [document_id |-> document_id, processing_status |-> "completed", error |-> "",
     citations_found |-> 0, citations_stored |-> 0, citations_linked |-> 0]

\* an exception of process_document: the batch turns it into a failed result
\* (lines 347-354), a direct caller receives it
Exception(document_id, error) ==
    [document_id |-> document_id, processing_status |-> "failed", error |-> error,
     citations_found |-> 0, citations_stored |-> 0, citations_linked |-> 0]

TotalSpans == SumSeq([b \in 1..MaxDocs |-> IF pdfs[b] = Unread THEN 0 ELSE Len(pdfs[b])])

\* who may call process_document(document_id) now: the loop of the running
\* batch for a document it still has to do, or the API while no batch runs
MayCall(caller, document_id) ==
    /\ proc.pc = "idle"
    /\ IF caller = "batch"
       THEN /\ batch.pc = "running"
            /\ batch.todo # <<>>
            /\ document_id = Head(batch.todo)
       ELSE /\ batch.pc = "idle"
            /\ directs < MaxDirect

\* the batch loop left at the first document that raises
Return_AbortsBatch(caller, document_id, result) ==
    IF caller = "batch"
    THEN /\ batch' = [batch EXCEPT !.results = Append(@, result),
                                   !.todo = IF result.processing_status = "failed"
                                            THEN <<>> ELSE Tail(@)]
         /\ raised' = IF result.processing_status = "failed"
                      THEN raised \cup {document_id} ELSE raised
         /\ UNCHANGED lastCall
    ELSE /\ lastCall' = result
         /\ UNCHANGED <<batch, raised>>

\* process_document has returned `result` or raised (result.processing_status
\* = "failed") to its caller
Return(caller, document_id, result) ==
    IF caller = "batch"
    THEN /\ batch' = [batch EXCEPT !.results = Append(@, result),
                                   !.todo = Tail(@)]
         /\ raised' = IF result.processing_status = "failed"
                      THEN raised \cup {document_id} ELSE raised
         /\ UNCHANGED lastCall
    ELSE /\ lastCall' = result
         /\ UNCHANGED <<batch, raised>>

Called(caller) == directs' = IF caller = "direct" THEN directs + 1 ELSE directs

\* process_all_documents up to its loop: ingest the folder's new PDFs, then
\* select the documents without citations
BatchStart ==
    /\ batch.pc = "idle"
    /\ proc.pc = "idle"
    /\ LET docs == Ingest(documents, folder, 1)
           unprocessed_docs == Unprocessed(docs, citations)
       IN /\ documents' = docs
          /\ batch' = [pc |-> "running", todo |-> unprocessed_docs,
                       discovered |-> Range(unprocessed_docs), results |-> <<>>]
    /\ raised' = {}
    /\ summary' = NoSummary
    /\ lastCall' = NoCall
    /\ UNCHANGED <<workers, parser, folder, pdfs, citations, proc, directs>>

\* process_document: no such document (line 111)
ProcessNotFound(caller, document_id) ==
    /\ MayCall(caller, document_id)
    /\ document_id \notin DocIds(documents)
    /\ Return(caller, document_id, Exception(document_id, "Document not found"))
    /\ Called(caller)
    /\ UNCHANGED <<workers, parser, folder, pdfs, documents, citations, proc, summary>>

\* process_document: the source file is gone (line 114)
ProcessFileMissing(caller, document_id) ==
    /\ MayCall(caller, document_id)
    /\ document_id \in DocIds(documents)
    /\ Return(caller, document_id, Exception(document_id, "PDF file not found"))
    /\ Called(caller)
    /\ UNCHANGED <<workers, parser, folder, pdfs, documents, citations, proc, summary>>

\* process_document: process_pdf raises (line 117)
ProcessExtractFails(caller, document_id) ==
    /\ MayCall(caller, document_id)
    /\ document_id \in DocIds(documents)
    /\ Return(caller, document_id, Exception(document_id, "PDF processing failed"))
    /\ Called(caller)
    /\ UNCHANGED <<workers, parser, folder, pdfs, documents, citations, proc, summary>>

\* process_document, steps 1 to 3: extract the spans, parse them, store the
\* citations and commit (lines 117-125, 151-185)
ProcessStore(caller, document_id) ==
    /\ MayCall(caller, document_id)
    /\ document_id \in DocIds(documents)
    /\ LET content == folder[DocOf(documents, document_id).source_path]
       IN \E spans \in SpanLists :
            /\ IF pdfs[content] = Unread
               THEN TotalSpans + Len(spans) <= MaxTotalSpans
               ELSE spans = pdfs[content]
            /\ pdfs' = [pdfs EXCEPT ![content] = spans]
            /\ LET parsed_citations == parse_citations_from_spans(spans)
                   pass == Cardinality(PassesOf(citations, document_id)) + 1
               IN /\ citations' = store_citations(citations, document_id,
                                                  parsed_citations, pass)
                  /\ proc' = [pc |-> "stored", doc |-> document_id, caller |-> caller,
                              pass |-> pass, found |-> Len(parsed_citations)]
    /\ Called(caller)
    /\ UNCHANGED <<workers, parser, folder, documents, batch, summary, lastCall, raised>>

\* process_document, step 4 raises: a query or the commit of _link_citations
\* fails, nothing of the step is committed (lines 195, 205, 273; 143-149)
ProcessLinkFails ==
    /\ proc.pc = "stored"
    /\ Return(proc.caller, proc.doc, Exception(proc.doc, "database error"))
    /\ proc' = IdleProc
    /\ UNCHANGED <<workers, parser, folder, pdfs, documents, citations, summary, directs>>

\* process_document, step 4 and the return: _link_citations and its commit
\* (lines 128-141, 187-278)
ProcessLink ==
    /\ proc.pc = "stored"
    /\ \E order \in Orders(documents) :
         LET stored == StoredBy(citations, proc.doc, proc.pass)
             linking == link_citations(citations, stored, order)
         IN /\ citations' = linking.table
            /\ Return(proc.caller, proc.doc,
                      Completed(proc.doc, proc.found, Cardinality(stored),
                                linking.linked_count))
    /\ proc' = IdleProc
    /\ UNCHANGED <<workers, parser, folder, pdfs, documents, summary, directs>>

CountStatus(results, status) ==
    Cardinality({ i \in 1..Len(results) : results[i].processing_status = status })

\* processed counted over every result, whatever its status
Summary_CountsAll(unprocessed_docs, results) ==
    [total_documents |-> Cardinality(unprocessed_docs),
     processed |-> Len(results),
     failed |-> CountStatus(results, "failed"),
     results |-> results,
     returned |-> TRUE]

Summary(unprocessed_docs, results) ==
    [total_documents |-> Cardinality(unprocessed_docs),
     processed |-> CountStatus(results, "completed"),
     failed |-> CountStatus(results, "failed"),
     results |-> results,
     returned |-> TRUE]

\* process_all_documents after its loop: the summary (lines 356-364)
BatchFinish ==
    /\ batch.pc = "running"
    /\ proc.pc = "idle"
    /\ batch.todo = <<>>
    /\ summary' = Summary(batch.discovered, batch.results)
    /\ batch' = IdleBatch
    /\ raised' = {}
    /\ UNCHANGED <<workers, parser, folder, pdfs, documents, citations, proc, lastCall,
                   directs>>

CallIds == 1..(MaxDocs + 1)

\* one batch run after another
Next ==
    \/ BatchStart
    \/ \E document_id \in CallIds : ProcessFileMissing("batch", document_id)
    \/ \E document_id \in CallIds : ProcessExtractFails("batch", document_id)
    \/ \E document_id \in CallIds : ProcessStore("batch", document_id)
    \/ ProcessLinkFails
    \/ ProcessLink
    \/ BatchFinish

Spec == Init /\ [][Next]_vars

\* batch runs and, between them, direct calls of process_document by the API
\* (POST /v1/process/{doc_id}), on a folder of at most MaxApiFiles files
DirectCall ==
    \E document_id \in CallIds :
        \/ ProcessNotFound("direct", document_id)
        \/ ProcessFileMissing("direct", document_id)
        \/ ProcessExtractFails("direct", document_id)
        \/ ProcessStore("direct", document_id)

NextApi == Next \/ DirectCall

InitApi == Init /\ Len(folder) <= MaxApiFiles

SpecApi == InitApi /\ [][NextApi]_vars

\* batch runs and, right after a batch has returned, one more direct call of
\* process_document for the document the batch completed last
Rerun ==
    \E document_id \in CallIds :
        /\ summary.returned
        /\ summary.results # <<>>
        /\ summary.results[Len(summary.results)].document_id = document_id
        /\ summary.results[Len(summary.results)].processing_status = "completed"
        /\ ProcessStore("direct", document_id)

NextRerun == Next \/ Rerun

SpecRerun == Init /\ [][NextRerun]_vars

\* ------------------------------------------------------- concurrent calls
\* process_document called by concurrent callers (server workers), each with
\* its own session and no lock: steps 1 to 3 of a call and their commit
WorkerStore(document_id) ==
    /\ document_id \in DocIds(documents)
    /\ \A w \in workers : w.doc # document_id
    /\ ~\E r \in citations : r.from_doc_id = document_id
    /\ LET content == folder[DocOf(documents, document_id).source_path]
       IN \E spans \in SpanLists :
            /\ IF pdfs[content] = Unread
               THEN TotalSpans + Len(spans) <= MaxTotalSpans
               ELSE spans = pdfs[content]
            /\ pdfs' = [pdfs EXCEPT ![content] = spans]
            /\ LET parsed_citations == parse_citations_from_spans(spans)
               IN /\ citations' = store_citations(citations, document_id,
                                                  parsed_citations, 1)
                  /\ workers' = workers \cup
                        {[doc |-> document_id, pass |-> 1,
                          found |-> Len(parsed_citations)]}
    /\ UNCHANGED <<parser, folder, documents, batch, proc, summary, lastCall,
                   raised, directs>>

\* step 4 of a concurrent call and its commit: the queries read what the
\* other calls have committed so far
WorkerLink(w) ==
    /\ w \in workers
    /\ \E order \in Orders(documents) :
         LET stored == StoredBy(citations, w.doc, w.pass)
         IN citations' = link_citations(citations, stored, order).table
    /\ workers' = workers \ {w}
    /\ UNCHANGED <<parser, folder, pdfs, documents, batch, proc, summary,
                   lastCall, raised, directs>>

NextConcurrent ==
    \/ \E document_id \in CallIds : WorkerStore(document_id)
    \/ \E w \in workers : WorkerLink(w)

\* the documents of the folder are ingested and none is processed yet
InitConcurrent ==
    /\ folder \in Folders
    /\ pdfs = [b \in 1..MaxDocs |-> Unread]
    /\ documents = Ingest(<<>>, folder, 1)
    /\ citations = {}
    /\ batch = IdleBatch
    /\ proc = IdleProc
    /\ summary = NoSummary
    /\ lastCall = NoCall
    /\ raised = {}
    /\ directs = 0
    /\ parser = NoParserCall
    /\ workers = {}

SpecConcurrent == InitConcurrent /\ [][NextConcurrent]_vars

\* ------------------------------------------------------------ parser calls
corpus == <<folder, pdfs, documents, citations, batch, proc, summary, lastCall,
            raised, directs, workers>>

\* _create_normalized_key(components), called up to MaxRepeat times
CallCreateNormalizedKey ==
    /\ parser.kind = "components"
    /\ Len(parser.keys) < MaxRepeat
    /\ parser' = [parser EXCEPT
                    !.keys = Append(@, create_normalized_key(parser.components))]
    /\ UNCHANGED corpus

\* _parse_single_citation on a span holding the text
CallParseSingleCitation ==
    /\ parser.kind = "text"
    /\ parser.single = <<>>
    /\ parser' = [parser EXCEPT
                    !.single = <<parse_single_citation(
                                    [raw_text |-> parser.text, loc |-> 1,
                                     confidence |-> SpanConfidence])>>]
    /\ UNCHANGED corpus

\* parse_citations(text)
CallParseCitations ==
    /\ parser.kind = "text"
    /\ parser.found = <<>>
    /\ parser' = [parser EXCEPT !.found = <<parse_citations(parser.text)>>]
    /\ UNCHANGED corpus

\* parse_citations_from_spans(citation_spans)
CallParseCitationsFromSpans ==
    /\ parser.kind = "spans"
    /\ parser.from_spans = <<>>
    /\ parser' = [parser EXCEPT
                    !.from_spans = <<parse_citations_from_spans(parser.spans)>>]
    /\ UNCHANGED corpus

NextParser ==
    \/ CallCreateNormalizedKey
    \/ CallParseSingleCitation
    \/ CallParseCitations
    \/ CallParseCitationsFromSpans

InitParser ==
    /\ folder = <<>>
    /\ pdfs = [b \in 1..MaxDocs |-> Unread]
    /\ documents = <<>>
    /\ citations = {}
    /\ batch = IdleBatch
    /\ proc = IdleProc
    /\ summary = NoSummary
    /\ lastCall = NoCall
    /\ raised = {}
    /\ directs = 0
    /\ parser \in ParserCalls
    /\ workers = {}

SpecParser == InitParser /\ [][NextParser]_vars

\* ------------------------------------------------------------------ claims
\* the three components are present (not None), whatever their values
Present(c) == c.reporter # NoneStr /\ c.volume # NoneInt /\ c.page # NoneInt

\* the other documents that hold a row with the triple of c
Holders(cits, c) ==
    { d \in DocIds(documents) \ {c.from_doc_id} :
        \E r \in cits : /\ r.from_doc_id = d
                        /\ r.reporter = c.reporter
                        /\ r.volume = c.volume
                        /\ r.page = c.page }

\* the pass runs the exact-match query for c
Resolved(cits, c) == \A o \in Orders(documents) : LinkOne(cits, c, o).queried

\* the rows of one citation of one pass: the stored one and those added for it
RowsOf(cits, key) == { r \in cits : CitationKey(r) = key }
LinkedRowsOf(cits, key) == { r \in RowsOf(cits, key) : r.to_doc_id # NoDoc }

\* the confidence process_pdf or the caller gave the span a row comes from
SpanConfidenceOf(r) ==
    pdfs[folder[DocOf(documents, r.from_doc_id).source_path]][r.loc].confidence

\* this step is _link_citations committing and process_document returning
LinkCommitted ==
    /\ proc.pc = "stored"
    /\ proc'.pc = "idle"
    /\ IF proc.caller = "batch"
       THEN batch'.results[Len(batch'.results)].processing_status = "completed"
       ELSE lastCall'.processing_status = "completed"

PassRows == StoredBy(citations, proc.doc, proc.pass)

\* C1: when the pass resolves a citation whose reporter, volume and page are
\* all present and exactly one other document holds a row with the same
\* triple, then after the pass the citation has one row only, the stored one,
\* linked to that document, with confidence min(original + 0.3, 1.0) and a
\* non-empty resolution note.
C1_SingleCandidateLinked ==
    [][LinkCommitted =>
        \A c \in PassRows :
            (Present(c) /\ Resolved(citations, c)
                /\ Cardinality(Holders(citations, c)) = 1)
            => \E r \in citations' :
                  /\ RowsOf(citations', CitationKey(c)) = {r}
                  /\ r.via = "stored"
                  /\ r.to_doc_id \in Holders(citations, c)
                  /\ r.confidence = IF c.confidence + ExactBoost > ConfidenceCap
                                    THEN ConfidenceCap
                                    ELSE c.confidence + ExactBoost
                  /\ r.resolution_notes # <<>>]_vars

\* a committed row linked by the single-candidate branch, its confidence capped
C1_Witness ==
    \E r \in citations :
        /\ proc.pc = "idle"
        /\ r.resolution_notes = ExactNote
        /\ r.to_doc_id # NoDoc
        /\ SpanConfidenceOf(r) + ExactBoost > ConfidenceCap
        /\ r.confidence = ConfidenceCap

\* C2: when the exact-match candidate set of a resolved citation has n > 1
\* documents, then after the pass every candidate is the to-document of at
\* least one row of the citation, every linked row of the citation has
\* confidence max(original - 0.2, 0.1), and every linked row's note carries
\* the candidate count n.
C2_FanOutCoversCandidates ==
    [][LinkCommitted =>
        \A c \in PassRows :
            LET n == Cardinality(Holders(citations, c))
            IN (Present(c) /\ Resolved(citations, c) /\ n > 1)
               => /\ \A d \in Holders(citations, c) :
                        \E r \in RowsOf(citations', CitationKey(c)) : r.to_doc_id = d
                  /\ \A r \in LinkedRowsOf(citations', CitationKey(c)) :
                        /\ r.confidence =
                              IF c.confidence - AmbiguousPenalty < ConfidenceFloor
                              THEN ConfidenceFloor
                              ELSE c.confidence - AmbiguousPenalty
                        /\ r.resolution_notes # <<>>
                        /\ \A i \in 1..Len(r.resolution_notes) :
                              r.resolution_notes[i].n = n]_vars

\* a floored network-connection row and the primary row of the same citation,
\* both with candidate count 2
C2_Witness ==
    \E r, q \in citations :
        /\ proc.pc = "idle"
        /\ r.via = "fanout" /\ q.via = "stored"
        /\ CitationKey(r) = CitationKey(q)
        /\ r.resolution_notes = NetworkNote(2)
        /\ q.resolution_notes = PrimaryNote(2)
        /\ SpanConfidenceOf(q) - AmbiguousPenalty < ConfidenceFloor
        /\ r.confidence = ConfidenceFloor

\* C3: when the exact-match candidate set of a resolved citation has n > 1
\* documents, then after the pass the citation has exactly n linked rows, one
\* per candidate: the stored row, marked primary, and n - 1 added rows, marked
\* network connection; no candidate is the to-document of two of its rows.
C3_OneRowPerCandidate ==
    [][LinkCommitted =>
        \A c \in PassRows :
            LET n == Cardinality(Holders(citations, c))
                linked == LinkedRowsOf(citations', CitationKey(c))
            IN (Present(c) /\ Resolved(citations, c) /\ n > 1)
               => /\ Cardinality(linked) = n
                  /\ \A d \in Holders(citations, c) :
                        Cardinality({ r \in linked : r.to_doc_id = d }) = 1
                  /\ Cardinality({ r \in linked : r.via = "stored"
                                     /\ r.resolution_notes = PrimaryNote(n) }) = 1
                  /\ Cardinality({ r \in linked : r.via = "fanout"
                                     /\ r.resolution_notes = NetworkNote(n) }) = n - 1]_vars

\* the documents other than the citing one with a row of the same reporter
\* whose volume is within VolumeWindow of the citation's
InWindowDocs(cits, c) ==
    { d \in DocIds(documents) \ {c.from_doc_id} :
        \E r \in cits : /\ r.from_doc_id = d
                        /\ r.reporter = c.reporter
                        /\ r.volume # NoneInt
                        /\ Abs(r.volume - c.volume) <= VolumeWindow }

\* C4: when a citation with reporter, volume and page present has no
\* exact-match candidate, the pass adds exactly one row for each other document
\* that holds a row of the same reporter with a volume within 10 of the
\* citation's, and no other row; each added row goes from the citing document
\* to that document with confidence 0.3 and the citation's text and components.
C4_FuzzyWindow ==
    [][LinkCommitted =>
        \A c \in PassRows :
            LET added == RowsOf(citations', CitationKey(c)) \ {c}
            IN (Present(c) /\ Holders(citations, c) = {})
               => /\ \A d \in InWindowDocs(citations, c) :
                        Cardinality({ r \in added : r.to_doc_id = d }) = 1
                  /\ \A r \in added :
                        /\ r.to_doc_id \in InWindowDocs(citations, c)
                        /\ r.from_doc_id = c.from_doc_id
                        /\ r.confidence = FuzzyConfidence
                        /\ r.raw_text = c.raw_text
                        /\ r.reporter = c.reporter
                        /\ r.volume = c.volume
                        /\ r.page = c.page]_vars

\* C5: a citation lacking reporter, volume or page is persisted as one row
\* with to-document null, the span's confidence and empty notes, and stays
\* so; no row is added for it, no candidate search is made for it, and every
\* span of the document, matched by a recognizer or not, yields its row.
C5_IncompleteStaysUnresolved ==
    /\ \A r \in citations :
          ~Present(r)
          => /\ r.via = "stored"
             /\ r.to_doc_id = NoDoc
             /\ r.confidence = SpanConfidenceOf(r)
             /\ r.resolution_notes = <<>>
             /\ RowsOf(citations, CitationKey(r)) = {r}
    /\ proc.pc = "stored"
       => /\ \A c \in PassRows :
                ~Present(c) => \A o \in Orders(documents) :
                                  ~LinkOne(citations, c, o).queried
          /\ Cardinality(PassRows)
                = Len(pdfs[folder[DocOf(documents, proc.doc).source_path]])

\* two documents hold a citation without components and both passes are over:
\* a search for either would have found the other
C5_Witness ==
    \E r, q \in citations :
        /\ proc.pc = "idle" /\ batch.pc = "idle" /\ summary.processed >= 2
        /\ ~Present(r) /\ ~Present(q)
        /\ r.from_doc_id # q.from_doc_id

\* C6: every persisted row has a confidence in [0, 1].
C6_ConfidenceInUnitInterval ==
    \A r \in citations : 0 <= r.confidence /\ r.confidence <= ConfidenceCap

\* a row boosted from the cap and fan-out rows reduced from it are committed
C6_Witness ==
    \E r, q \in citations :
        /\ r.resolution_notes = ExactNote
        /\ SpanConfidenceOf(r) = ConfidenceCap /\ r.confidence = ConfidenceCap
        /\ q.via = "fanout"
        /\ q.confidence = ConfidenceCap - AmbiguousPenalty

\* C7: a row with a to-document has at least one resolution note, and a row
\* without notes has no to-document.
C7_LinkedRowsHaveNotes ==
    \A r \in citations :
        /\ r.to_doc_id # NoDoc => Len(r.resolution_notes) >= 1
        /\ r.resolution_notes = <<>> => r.to_doc_id = NoDoc

\* a fuzzy row, a row linked in place and a row left unlinked are committed
C7_Witness ==
    \E r, f, u \in citations :
        /\ r.via = "stored" /\ r.to_doc_id # NoDoc
        /\ f.via = "fuzzy" /\ f.to_doc_id # NoDoc
        /\ u.to_doc_id = NoDoc /\ u.resolution_notes = <<>>

\* C8: no committed state shows part of a pass (the citations of the running
\* pass are not in the table before the pass ends), and a document whose pass
\* failed in the running batch has no row.
C8_PassIsOneCommit ==
    /\ proc.pc = "stored" => PassRows = {}
    /\ \A i \in 1..Len(batch.results) :
          batch.results[i].processing_status = "failed"
          => ~\E r \in citations : r.from_doc_id = batch.results[i].document_id

\* the batch loop is over and process_all_documents returns
BatchReturns == batch.pc = "running" /\ batch'.pc = "idle"

\* C9: when the batch returns, every document selected has one result; a
\* document whose processing raised has status failed with the error text,
\* any other has status completed; if three were selected and one raised the
\* summary says processed = 2 and failed = 1.
C9_FailureDoesNotAbortBatch ==
    [][BatchReturns =>
        /\ \A d \in batch.discovered :
              \E i \in 1..Len(summary'.results) :
                  /\ summary'.results[i].document_id = d
                  /\ IF d \in raised
                     THEN /\ summary'.results[i].processing_status = "failed"
                          /\ summary'.results[i].error # ""
                     ELSE summary'.results[i].processing_status = "completed"
        /\ (Cardinality(batch.discovered) = 3 /\ Cardinality(raised) = 1)
              => summary'.processed = 2 /\ summary'.failed = 1]_vars

\* a batch of three has returned with the first document failed and the two
\* after it completed
C9_Witness ==
    /\ summary.returned
    /\ summary.total_documents = 3
    /\ summary.processed = 2 /\ summary.failed = 1
    /\ summary.results[1].processing_status = "failed"

\* C10: the results of the running batch and the documents still to do are
\* the documents selected, each once; the summary returned has one result per
\* document selected, each completed or failed, and total_documents =
\* processed + failed = number of results.
C10_SummaryCountsAgree ==
    /\ batch.pc = "running"
       => /\ Len(batch.results) + Len(batch.todo) = Cardinality(batch.discovered)
          /\ { batch.results[i].document_id : i \in 1..Len(batch.results) }
                \cup Range(batch.todo) = batch.discovered
    /\ summary.returned
       => /\ summary.total_documents = Len(summary.results)
          /\ summary.total_documents = summary.processed + summary.failed
          /\ \A i \in 1..Len(summary.results) :
                summary.results[i].processing_status \in {"completed", "failed"}
          /\ \A i, j \in 1..Len(summary.results) :
                summary.results[i].document_id = summary.results[j].document_id
                => i = j

\* a batch has returned with completed and failed documents
C10_Witness ==
    /\ summary.returned
    /\ summary.processed >= 1
    /\ summary.failed >= 1

\* a batch that found nothing to do has returned
C10_EmptyBatchReturned ==
    /\ summary.returned
    /\ summary.total_documents = 0

\* the documents without a row of their own
WithoutRows(docs, cits) ==
    { d \in DocIds(docs) : ~\E r \in cits : r.from_doc_id = d }

\* process_all_documents selects its documents
BatchDiscovers == batch.pc = "idle" /\ batch'.pc = "running"

\* the loop of the batch gets the outcome of one process_document call
BatchGetsResult ==
    /\ batch.pc = "running" /\ batch'.pc = "running"
    /\ Len(batch'.results) = Len(batch.results) + 1

\* C11: a batch run selects exactly the documents that have no row of their
\* own when it looks; it calls process_document for selected documents only,
\* one call per document, and a document that has a row when the batch looks
\* is not processed by that run.
C11_BatchProcessesUnprocessedOnce ==
    [][/\ BatchDiscovers
          => /\ batch'.discovered = WithoutRows(documents', citations')
             /\ Range(batch'.todo) = batch'.discovered
             /\ Len(batch'.todo) = Cardinality(batch'.discovered)
       /\ (batch.pc = "running" /\ proc.pc = "idle" /\ proc'.pc = "stored")
          => /\ proc'.doc \in batch.discovered
             /\ proc'.doc \in WithoutRows(documents, citations)
       /\ BatchGetsResult
          => LET result == batch'.results[Len(batch'.results)]
             IN /\ result.document_id \in batch.discovered
                /\ \A i \in 1..Len(batch.results) :
                      batch.results[i].document_id # result.document_id
                /\ \A i \in 1..Len(batch'.todo) :
                      batch'.todo[i] # result.document_id
       /\ BatchReturns
          => /\ batch.todo = <<>>
             /\ { batch.results[i].document_id : i \in 1..Len(batch.results) }
                   = batch.discovered]_vars

\* a later batch run is under way: it left out a document that has rows and
\* has processed one that had none
C11_Witness ==
    /\ batch.pc = "running"
    /\ batch.results # <<>>
    /\ batch.todo # <<>>
    /\ \E d \in DocIds(documents) \ batch.discovered :
          \E r \in citations : r.from_doc_id = d /\ r.created = 1
                                 /\ r.to_doc_id = NoDoc

\* a direct call of process_document has raised before its first step
DirectCallRaisedAtEntry ==
    /\ directs' = directs + 1
    /\ proc.pc = "idle" /\ proc'.pc = "idle"

\* the batch's call of process_document has raised before its first step
BatchCallRaisedAtEntry == BatchGetsResult /\ proc.pc = "idle"

CorpusUnchanged == citations' = citations /\ documents' = documents

NotFound(result) ==
    /\ result.processing_status = "failed"
    /\ result.error \in {"Document not found", "PDF file not found"}

\* C12: process_document called with an id no document has raises the
\* not-found error to its caller; a call that raises the document-not-found
\* or the file-not-found error, to the API or to the batch loop, has created
\* or changed no citation row and no document.
C12_NotFoundLeavesCorpus ==
    [][/\ DirectCallRaisedAtEntry
          => /\ lastCall'.document_id \notin DocIds(documents)
                => /\ NotFound(lastCall')
                   /\ lastCall'.error = "Document not found"
             /\ lastCall'.processing_status = "failed"
             /\ NotFound(lastCall') => CorpusUnchanged
       /\ BatchCallRaisedAtEntry
          => LET result == batch'.results[Len(batch'.results)]
             IN /\ result.processing_status = "failed"
                /\ NotFound(result) => CorpusUnchanged]_vars

\* after a batch in which one document's file was missing and another
\* document got its rows, a direct call for an unknown id has raised
C12_Witness ==
    /\ lastCall.error = "Document not found"
    /\ lastCall.document_id \notin DocIds(documents)
    /\ citations # {}
    /\ \E i \in 1..Len(summary.results) :
          summary.results[i].error = "PDF file not found"

\* the key made of exactly the components that are present
PresentParts(c) ==
    (IF c.volume # NoneInt THEN <<KeyNum(c.volume)>> ELSE <<>>)
    \o (IF c.reporter # NoneStr THEN <<KeyStr(c.reporter)>> ELSE <<>>)
    \o (IF c.page # NoneInt THEN <<KeyNum(c.page)>> ELSE <<>>)

\* C13: for every component set, 0 included, the normalized key is the
\* present components in the order volume, reporter, page, separated by
\* blanks; it is "unknown" exactly when all three are absent; normalizing the
\* same set again gives the same key.
C13_KeyOfPresentComponents ==
    \A i \in 1..Len(parser.keys) :
        /\ parser.keys[i] = <<KeyStr("unknown")>>
              <=> parser.components = NoComponents
        /\ parser.components # NoComponents
              => parser.keys[i] = PresentParts(parser.components)
        /\ parser.keys[i] = parser.keys[1]

\* the text begins with <digits> U.S. <digits>
BeginsWithUS(text) ==
    /\ Len(text) >= 3
    /\ text[1].num /\ text[3].num
    /\ text[2] = Word("U.S", TRUE)

\* the text begins with <digits> F. <digits>, F. followed by 2d, 3d, 4d or
\* nothing
BeginsWithFed(text) ==
    /\ Len(text) >= 3
    /\ text[1].num /\ text[3].num
    /\ text[2] \in {Word("F", TRUE), Word("F.2d", FALSE), Word("F.3d", FALSE),
                     Word("F.4d", FALSE)}

\* C14: a span text that begins with <digits> U.S. <digits> parses to those
\* two integers as volume and page and reporter "U.S."; one that begins with
\* <digits> F. <digits>, with or without 2d, 3d or 4d, to reporter "F."; what
\* follows does not matter, and the key (of non-zero numbers) is volume,
\* reporter, page: "410 U.S. 113" for "410 U.S. 113 (1973)", "123 F. 456" for
\* "123 F.2d 456" and for "123 F.3d 456".
C14_USAndFedComponents ==
    \A i \in 1..Len(parser.single) :
        LET text == parser.text
            parsed == parser.single[i]
        IN (BeginsWithUS(text) \/ BeginsWithFed(text))
           => /\ parsed.volume = text[1].n
              /\ parsed.page = text[3].n
              /\ parsed.reporter = IF BeginsWithUS(text) THEN "U.S." ELSE "F."
              /\ (text[1].n # 0 /\ text[3].n # 0)
                    => parsed.normalized_key
                          = <<KeyNum(text[1].n), KeyStr(parsed.reporter),
                              KeyNum(text[3].n)>>
              /\ parsed.raw_text = text

\* "410 U.S. 113 (1973)" has been parsed to the key "410 U.S. 113"
C14_Witness ==
    /\ parser.text = <<Num(410), Word("U.S", TRUE), Num(113), Word("(1973)", FALSE)>>
    /\ parser.single # <<>>
    /\ parser.single[1].normalized_key
          = <<KeyNum(410), KeyStr("U.S."), KeyNum(113)>>

\* "123 F.3d 456" followed by other text has been parsed to the key
\* "123 F. 456"
C14_FedWitness ==
    /\ Len(parser.text) > 3
    /\ SubSeq(parser.text, 1, 3) = <<Num(123), Word("F.3d", FALSE), Num(456)>>
    /\ parser.single # <<>>
    /\ parser.single[1].normalized_key
          = <<KeyNum(123), KeyStr("F."), KeyNum(456)>>

\* the text is <digits> <word>. <digits> and nothing else
DigitsWordDigits(text) ==
    /\ Len(text) = 3
    /\ text[1].num /\ text[3].num
    /\ ~text[2].num /\ text[2].dot /\ text[2].w \in AlphaWords

\* C15: a text <digits> <word>. <digits> without a year parses to the two
\* integers as volume and page, to the word with its period as reporter
\* ("Cal." for "123 Cal. 456") and to no year.
C15_ReporterKeepsPeriod ==
    \A i \in 1..Len(parser.single) :
        LET text == parser.text
            parsed == parser.single[i]
        IN DigitsWordDigits(text)
           => /\ parsed.volume = text[1].n
              /\ parsed.page = text[3].n
              /\ parsed.reporter = text[2].w \o "."
              /\ parsed.year = NoneInt

\* the citations of a text: reading from the left, each place where one of
\* the four recognizers matches, the next one sought after its end
CitationLen(rest) == IF ~us_match(rest) /\ ~fed_match(rest) /\ state_match(rest)
                     THEN 4 ELSE 3

RECURSIVE CitationsIn(_, _)
CitationsIn(text, i) ==
    IF i > Len(text) THEN <<>>
    ELSE LET rest == SubSeq(text, i, Len(text))
         IN IF extract_citation_components(rest) # NoComponents
            THEN <<[raw_text |-> SubSeq(text, i, i + CitationLen(rest) - 1),
                    components |-> extract_citation_components(rest)]>>
                    \o CitationsIn(text, i + CitationLen(rest))
            ELSE CitationsIn(text, i + 1)

\* C16: parse_citations returns one ParsedCitation for each citation of the
\* text, in the order of the text, each with the text, volume, reporter and
\* page of its own citation; for a text without citation it returns the empty
\* list.
C16_OnePerCitationInOrder ==
    \A k \in 1..Len(parser.found) :
        LET found == parser.found[k]
            cites == CitationsIn(parser.text, 1)
        IN /\ Len(found) = Len(cites)
           /\ \A j \in 1..Len(found) :
                 j <= Len(cites)
                 => /\ found[j].raw_text = cites[j].raw_text
                    /\ found[j].volume = cites[j].components.volume
                    /\ found[j].reporter = cites[j].components.reporter
                    /\ found[j].page = cites[j].components.page

\* the year in parentheses that follows the match, if any
YearAfter(text, raw_text) ==
    IF \E i \in 1..Len(text) :
          /\ i + Len(raw_text) <= Len(text)
          /\ SubSeq(text, i, i + Len(raw_text) - 1) = raw_text
          /\ text[i + Len(raw_text)] = Word("(1973)", FALSE)
    THEN 1973 ELSE NoneInt

\* C17: every citation parse_citations returns has the reporter, volume and
\* page of its text, the year that follows it in parentheses, integer span
\* positions and confidence 0.6.
C17_FullTextFieldsSet ==
    \A k \in 1..Len(parser.found) :
        \A j \in 1..Len(parser.found[k]) :
            LET citation == parser.found[k][j]
                components == extract_citation_components(citation.raw_text)
            IN /\ citation.reporter = components.reporter
               /\ citation.volume = components.volume
               /\ citation.page = components.page
               /\ citation.reporter # NoneStr
               /\ YearAfter(parser.text, citation.raw_text) # NoneInt
                     => citation.year = YearAfter(parser.text, citation.raw_text)
               /\ citation.loc # NoneInt
               /\ citation.confidence = FullTextConfidence

\* the spans of the list that parse without raising, in their order
WellFormed(spans) == SelectSeq(spans, LAMBDA sp : sp.raw_text # NotAString)

\* C18: parse_citations_from_spans returns, in the order of the input, one
\* ParsedCitation for each span that parses without raising and none for a
\* span that raises; a span no recognizer matches yields absent components
\* and the key "unknown".
C18_BadSpansSkipped ==
    \A k \in 1..Len(parser.from_spans) :
        LET out == parser.from_spans[k]
            good == WellFormed(parser.spans)
        IN /\ Len(out) = Len(good)
           /\ \A j \in 1..Len(out) :
                 j <= Len(good)
                 => /\ out[j].raw_text = good[j].raw_text
                    /\ out[j].loc = good[j].loc
                    /\ out[j].confidence = good[j].confidence
                    /\ out[j].raw_text = <<Word("See", FALSE), Word("above", FALSE)>>
                          => /\ out[j].volume = NoneInt
                             /\ out[j].reporter = NoneStr
                             /\ out[j].page = NoneInt
                             /\ out[j].normalized_key = <<KeyStr("unknown")>>
                    /\ out[j].raw_text = <<Num(123), Word("Cal", TRUE), Num(456)>>
                          => out[j].volume = 123 /\ out[j].page = 456

\* a list whose second span raises, between a citation and a text no
\* recognizer matches, has been parsed to two citations
C18_Witness ==
    /\ Len(parser.spans) = 3
    /\ parser.spans[1].raw_text = <<Num(123), Word("Cal", TRUE), Num(456)>>
    /\ parser.spans[2].raw_text = NotAString
    /\ parser.spans[3].raw_text = <<Word("See", FALSE), Word("above", FALSE)>>
    /\ parser.from_spans # <<>>
    /\ Len(parser.from_spans[1]) = 2

\* the second run of process_document for a document commits, the first
\* run having been the last pass before it: no other document's rows changed
\* in between
RerunCommitted ==
    /\ LinkCommitted
    /\ proc.caller = "direct"
    /\ proc.pass = 2
    /\ summary.returned
    /\ summary.results # <<>>
    /\ summary.results[Len(summary.results)].document_id = proc.doc
    /\ summary.results[Len(summary.results)].processing_status = "completed"

RunRows(cits, d, pass) == { r \in cits : r.from_doc_id = d /\ r.created = pass }

\* the stored row of a citation with several candidates, linked to the
\* candidate the query returned first
IsPrimary(r) ==
    /\ r.via = "stored"
    /\ r.resolution_notes # <<>>
    /\ r.resolution_notes[1].n > 0

Decision(r) ==
    [to_doc_id |-> r.to_doc_id, confidence |-> r.confidence,
     resolution_notes |-> r.resolution_notes, via |-> r.via]

\* C19: the second run of process_document for a document, the other
\* documents' rows unchanged since the first, leaves the rows of the first
\* run as they are and adds as many rows again; for each citation the rows of
\* the second run have the to-documents, the confidences and the notes of the
\* rows of the first run (row by row, but for the row marked primary, whose
\* to-document is the candidate the query returns first).
C19_RerunRepeatsDecisions ==
    [][RerunCommitted =>
        LET d == proc.doc
            first == RunRows(citations, d, 1)
            second == RunRows(citations', d, 2)
        IN /\ RunRows(citations', d, 1) = first
           /\ { r \in citations' : r.from_doc_id # d }
                 = { r \in citations : r.from_doc_id # d }
           /\ first # {}
           /\ Cardinality(second) = Cardinality(first)
           /\ \A loc \in { r.loc : r \in first \cup second } :
                 LET f == { r \in first : r.loc = loc }
                     g == { r \in second : r.loc = loc }
                 IN /\ Cardinality(f) = Cardinality(g)
                    /\ { r.to_doc_id : r \in f } = { r.to_doc_id : r \in g }
                    /\ { [Decision(r) EXCEPT !.to_doc_id = NoDoc] : r \in f }
                          = { [Decision(r) EXCEPT !.to_doc_id = NoDoc] : r \in g }
                    /\ { Decision(r) : r \in { x \in f : ~IsPrimary(x) } }
                          = { Decision(r) : r \in { x \in g : ~IsPrimary(x) } }
                    /\ \A r \in f, q \in g :
                          r.raw_text = q.raw_text /\ r.normalized_key = q.normalized_key]_vars

\* a document citing what two other documents cite has been processed a
\* second time: both runs left a primary row and fan-out rows
C19_Witness ==
    /\ proc.pc = "idle"
    /\ lastCall.processing_status = "completed"
    /\ \E r, q \in citations :
          /\ r.from_doc_id = lastCall.document_id /\ q.from_doc_id = r.from_doc_id
          /\ r.loc = q.loc
          /\ r.created = 1 /\ q.created = 2
          /\ r.resolution_notes = PrimaryNote(2)
          /\ q.resolution_notes = PrimaryNote(2)

\* C20: no two documents have the same fingerprint or the same id, every
\* document is a file of the folder, and a content is ingested once however
\* many files hold it and however many batch runs find it.
C20_FingerprintUnique ==
    /\ \A i, j \in 1..Len(documents) :
          (documents[i].fingerprint = documents[j].fingerprint
              \/ documents[i].id = documents[j].id) => i = j
    /\ \A i \in 1..Len(documents) :
          /\ documents[i].source_path \in 1..Len(folder)
          /\ documents[i].fingerprint = Fingerprint(folder[documents[i].source_path])
    /\ Len(documents) <= Cardinality(Range(folder))

\* a folder with two files of the same content has been scanned by a second
\* batch run, after a run that stored rows
C20_Witness ==
    /\ \E i, j \in 1..Len(folder) : i < j /\ folder[i] = folder[j]
    /\ Len(documents) = 2
    /\ batch.pc = "running" /\ batch.results = <<>> /\ proc.pc = "idle"
    /\ citations # {}

\* the tables that processing the documents of todo one after the other, in
\* any order, makes of a table
RECURSIVE SerialRuns(_, _)
SerialRuns(table, todo) ==
    IF todo = {} THEN {table}
    ELSE UNION { UNION {
            LET content == folder[DocOf(documents, d).source_path]
                stored == store_citations(table, d,
                              parse_citations_from_spans(pdfs[content]), 1)
            IN SerialRuns(link_citations(stored, StoredBy(stored, d, 1), o).table,
                          todo \ {d})
            : o \in Orders(documents) } : d \in todo }

\* C21: when the passes of two documents interleave (one resolves while the
\* other has stored its citations and not resolved them), the rows of the
\* pass in flight are read as candidates: a citation of the resolving pass
\* whose reporter, volume and page a row of the pass in flight has gets a row
\* linked to that document.  (The witness is a final table no serial order of
\* the passes gives.)
C21_InFlightRowsAreRead ==
    [][\A w \in workers :
          workers' = workers \ {w}
          => \A c \in { r \in citations : r.from_doc_id = w.doc } :
               \A v \in workers \ {w} :
                  (/\ c.reporter # NoneStr /\ c.volume > 0 /\ c.page > 0
                   /\ \E q \in citations :
                         /\ q.from_doc_id = v.doc
                         /\ q.reporter = c.reporter
                         /\ q.volume = c.volume
                         /\ q.page = c.page)
                  => \E r \in citations' :
                        /\ r.from_doc_id = c.from_doc_id /\ r.loc = c.loc
                        /\ r.to_doc_id = v.doc]_vars

\* all passes are over and the table is none that the same passes give when
\* run one after the other, in whatever order: two documents are linked to
\* each other
C21_Witness ==
    /\ workers = {}
    /\ LET done == { d \in DocIds(documents) :
                       \E r \in citations : r.from_doc_id = d }
       IN /\ Cardinality(done) = 2
          /\ citations \notin SerialRuns({}, done)
          /\ \E r, q \in citations :
                /\ r.to_doc_id = q.from_doc_id
                /\ q.to_doc_id = r.from_doc_id
                /\ r.to_doc_id # NoDoc /\ q.to_doc_id # NoDoc

\* C22: no row links a document to itself, whichever path wrote it, and
\* every to-document is a document of the corpus.
C22_NoSelfLink ==
    \A r \in citations :
        r.to_doc_id # NoDoc
        => /\ r.to_doc_id # r.from_doc_id
           /\ r.to_doc_id \in DocIds(documents)

\* the third document is linked to the two before it, by its own row and by
\* a network-connection row
C22_Witness ==
    \E r, q \in citations :
        /\ r.from_doc_id = 3 /\ q.from_doc_id = 3
        /\ r.via = "fanout" /\ r.to_doc_id = 2
        /\ q.via = "stored" /\ q.to_doc_id \in {1, 2}

\* C23: with more than one exact-match candidate no row of the citation,
\* primary or network connection, has a confidence above the citation's
\* original confidence.
C23_AmbiguityNeverRaises ==
    [][LinkCommitted =>
        \A c \in PassRows :
            (Present(c) /\ Resolved(citations, c)
                /\ Cardinality(Holders(citations, c)) > 1)
            => \A r \in LinkedRowsOf(citations', CitationKey(c)) :
                  r.confidence <= c.confidence]_vars

\* C23, amended: with more than one exact-match candidate no row of the
\* citation has a confidence above the larger of the citation's original
\* confidence and the floor 0.1: an original confidence of at least 0.1 is
\* never raised, one below 0.1 becomes 0.1.
C23_AmbiguityNeverRaisesAboveFloor ==
    [][LinkCommitted =>
        \A c \in PassRows :
            (Present(c) /\ Resolved(citations, c)
                /\ Cardinality(Holders(citations, c)) > 1)
            => \A r \in LinkedRowsOf(citations', CitationKey(c)) :
                  IF c.confidence >= 1
                  THEN r.confidence <= c.confidence
                  ELSE r.confidence = 1]_vars

\* a citation stored with confidence 0 and two candidates has its primary
\* and network-connection rows at 0.1
C23_Witness ==
    \E r, q \in citations :
        /\ proc.pc = "idle"
        /\ CitationKey(r) = CitationKey(q)
        /\ r.resolution_notes = PrimaryNote(2)
        /\ q.resolution_notes = NetworkNote(2)
        /\ SpanConfidenceOf(r) = 0
        /\ r.confidence = 1 /\ q.confidence = 1

\* C24: a citation with reporter, volume and page present, 0 included, goes
\* through the exact-match search and gets a linked row when another document
\* has its triple; only a citation with an absent component is skipped.
C24_ZeroIsResolved ==
    [][LinkCommitted =>
        \A c \in PassRows :
            /\ Present(c)
               => /\ \A o \in Orders(documents) : LinkOne(citations, c, o).queried
                  /\ Holders(citations, c) # {}
                        => LinkedRowsOf(citations', CitationKey(c)) # {}
            /\ ~Present(c)
               => \A o \in Orders(documents) : ~LinkOne(citations, c, o).queried]_vars

\* the rows the running pass may still change: the ones it stored
OwnPassRows ==
    IF proc.pc = "stored"
    THEN { r \in citations : /\ r.from_doc_id = proc.doc
                              /\ r.created = proc.pass
                              /\ r.via = "stored" }
    ELSE {}

\* C25: a step leaves every row as it is, but for the rows the running pass
\* stored, which it may link (their citing document, place and text stay);
\* no row and no document goes away, so rows of other documents and of
\* earlier passes never change.
C25_OtherRowsUntouched ==
    [][/\ \A r \in citations :
             \/ r \in citations'
             \/ /\ r \in OwnPassRows
                /\ \E q \in citations' :
                      /\ CitationKey(q) = CitationKey(r)
                      /\ q.via = "stored"
                      /\ q.raw_text = r.raw_text
                      /\ q.reporter = r.reporter
                      /\ q.volume = r.volume
                      /\ q.page = r.page
       /\ Len(documents') >= Len(documents)
       /\ \A i \in 1..Len(documents) : documents'[i] = documents[i]]_vars

\* a document has been processed a second time: the linked row of its first
\* pass and the rows of the other document are there with the second pass's
C25_Witness ==
    \E r, q, o \in citations :
        /\ proc.pc = "idle"
        /\ r.from_doc_id = q.from_doc_id
        /\ r.created = 1 /\ r.to_doc_id # NoDoc
        /\ q.created = 2 /\ q.to_doc_id # NoDoc
        /\ o.from_doc_id # r.from_doc_id

\* the rows of document d with the triple of c
TripleRows(cits, d, c) ==
    { r \in cits : /\ r.from_doc_id = d
                    /\ r.reporter = c.reporter
                    /\ r.volume = c.volume
                    /\ r.page = c.page }

\* C26: a document with several rows of the citation's triple is one
\* candidate: if it is the only other document with the triple the citation
\* is linked as a single exact match, and with more documents the count in
\* the notes is the number of documents.
C26_CandidatesAreDocuments ==
    [][LinkCommitted =>
        \A c \in PassRows :
            LET holders == Holders(citations, c)
            IN (/\ Present(c) /\ Resolved(citations, c)
                /\ \E d \in holders : Cardinality(TripleRows(citations, d, c)) >= 2)
               => /\ Cardinality(holders) = 1
                     => \E r \in citations' :
                           /\ RowsOf(citations', CitationKey(c)) = {r}
                           /\ r.to_doc_id \in holders
                           /\ r.resolution_notes = ExactNote
                  /\ \A r \in LinkedRowsOf(citations', CitationKey(c)) :
                        \A i \in 1..Len(r.resolution_notes) :
                           r.resolution_notes[i].n \in {0, Cardinality(holders)}
                  /\ Cardinality(holders) > 1
                     => \A r \in LinkedRowsOf(citations', CitationKey(c)) :
                           r.resolution_notes[1].n = Cardinality(holders)]_vars

\* a citation is linked as a single exact match to a document that holds
\* its triple in two rows
C26_Witness ==
    \E r \in citations :
        /\ proc.pc = "idle"
        /\ r.resolution_notes = ExactNote
        /\ Cardinality(TripleRows(citations, r.to_doc_id, r)) >= 2

\* C27: a resolved citation without exact-match candidate keeps its row as
\* stored (no to-document, the span's confidence, no notes), fuzzy candidates
\* or not; its other rows are the fuzzy ones, linked, with confidence 0.3.
C27_FuzzyLeavesOriginal ==
    [][LinkCommitted =>
        \A c \in PassRows :
            (Resolved(citations, c) /\ Holders(citations, c) = {})
            => /\ c \in citations'
               /\ c.to_doc_id = NoDoc
               /\ c.resolution_notes = <<>>
               /\ c.confidence = SpanConfidenceOf(c)
               /\ \A r \in RowsOf(citations', CitationKey(c)) \ {c} :
                     /\ r.via = "fuzzy"
                     /\ r.to_doc_id # NoDoc
                     /\ r.confidence = 3]_vars

\* one citation has a fuzzy row beside its unlinked row, and a citation of
\* another document, searched without any candidate, has its row alone
C27_Witness ==
    \E f, o, u \in citations :
        /\ proc.pc = "idle"
        /\ f.via = "fuzzy" /\ o.via = "stored"
        /\ CitationKey(f) = CitationKey(o)
        /\ o.to_doc_id = NoDoc /\ o.resolution_notes = <<>>
        /\ u.from_doc_id # o.from_doc_id
        /\ u.to_doc_id = NoDoc /\ Present(u) /\ u.volume > 0
        /\ RowsOf(citations, CitationKey(u)) = {u}

\* the links between documents, and whether b is reached from a in at most
\* n links
DocLinks(cits) ==
    { <<r.from_doc_id, r.to_doc_id>> : r \in { x \in cits : x.to_doc_id # NoDoc } }

RECURSIVE Reaches(_, _, _, _)
Reaches(links, a, b, n) ==
    /\ n > 0
    /\ \/ <<a, b>> \in links
       \/ \E l \in links : l[1] = a /\ Reaches(links, l[2], b, n - 1)

\* C28: under batch runs every row a pass links points to a document that
\* had rows before the pass began; no two documents are linked in both
\* directions and no chain of links returns to its start.
C28_LinksPointBack ==
    [][LinkCommitted =>
        /\ \A r \in citations' \ citations :
              r.to_doc_id # NoDoc
              => /\ r.from_doc_id = proc.doc
                 /\ \E q \in citations : /\ q.from_doc_id = r.to_doc_id
                                          /\ q.from_doc_id # proc.doc
        /\ \A a, b \in DocIds(documents) :
              ~(<<a, b>> \in DocLinks(citations') /\ <<b, a>> \in DocLinks(citations'))
        /\ \A a \in DocIds(documents) :
              ~Reaches(DocLinks(citations'), a, a, Len(documents))]_vars

\* the third document is linked to the second and the second to the first
C28_Witness ==
    /\ <<3, 2>> \in DocLinks(citations)
    /\ <<2, 1>> \in DocLinks(citations)
    /\ proc.pc = "idle"

\* C29: a document the batch run before reported as completed, with or
\* without citations, is not selected by the next batch run.
C29_CompletedNotSelectedAgain ==
    [][BatchDiscovers =>
        \A i \in 1..Len(summary.results) :
            summary.results[i].processing_status = "completed"
            => summary.results[i].document_id \notin batch'.discovered]_vars

\* C30: the result of a completed process_document call has citations_stored
\* = citations_found = the number of rows the call stored, and
\* citations_linked = the number of rows of the call with a to-document,
\* added rows included.
C30_ResultCounts ==
    [][(LinkCommitted /\ proc.caller = "batch") =>
        LET result == batch'.results[Len(batch'.results)]
        IN /\ result.document_id = proc.doc
           /\ result.citations_stored = result.citations_found
           /\ result.citations_stored = Cardinality(PassRows)
           /\ result.citations_linked
                 = Cardinality({ r \in citations' : /\ r.from_doc_id = proc.doc
                                                    /\ r.created = proc.pass
                                                    /\ r.to_doc_id # NoDoc })]_vars

\* a batch has returned a result with more links than citations stored
C30_Witness ==
    /\ summary.returned
    /\ \E i \in 1..Len(summary.results) :
          /\ summary.results[i].processing_status = "completed"
          /\ summary.results[i].citations_stored >= 1
          /\ summary.results[i].citations_linked > summary.results[i].citations_stored

====
